---- MODULE Spec2Model ----
(***************************************************************************)
(* sjtu::priority_queue<T, Compare> (src/src/priority_queue.hpp): a        *)
(* leftist heap whose mutators build a replacement tree from copies and    *)
(* install it afterwards.  The free store is modelled explicitly: `heap`   *)
(* maps every allocated address to its Node, `new` may fail at any         *)
(* allocation, `delete` removes one address.  A function of the source is  *)
(* one operator per statement group (f, f_step, ...), each handing the     *)
(* values computed so far to the next.                                     *)
(***************************************************************************)
EXTENDS Integers, Sequences, FiniteSets

\* ------------------------------------------------------------- bounds
\* queue objects that may exist at once
NumQueues == 2
\* payloads are 1..MaxVal
MaxVal == 2
\* public calls in a run
MaxOps == 4
\* values pushed in the push-then-drain scenario
MaxLen == 4
\* allocation failures injected in a run
MaxFailures == 1

Queues == 1..NumQueues
Values == 1..MaxVal

VARIABLES heap, root, curSize, live, last, mcall, ccall, acct, copied, failures,
          ops, input, pos, out

vars == <<heap, root, curSize, live, last, mcall, ccall, acct, copied, failures,
          ops, input, pos, out>>

\* ------------------------------------------------------- the free store
\* nullptr
NULL == 0

\* A fuel that never reaches 0: no allocation fails.
NoFail == -1

\* Node::Node(const T &val)
Node(val) == [data |-> val, left |-> NULL, right |-> NULL, dist |-> 0]

\* The address operator new hands out: the lowest free one.
FreshAddr(h) ==
    CHOOSE a \in 1..(Cardinality(DOMAIN h) + 1) :
        a \notin DOMAIN h /\ \A b \in 1..(a - 1) : b \in DOMAIN h

\* the free store with a Node(val) allocated at address a
Allocated(m, a, val) ==
    [heap |-> [x \in DOMAIN m.heap \cup {a} |->
                  IF x = a THEN Node(val) ELSE m.heap[x]],
     fuel |-> m.fuel - 1]

\* new Node(val) with m.fuel allocations left before one fails (T's copy
\* constructor runs inside the new-expression, so a failed payload copy is
\* the same failure point).
NewNode(m, val) ==
    IF m.fuel = 0
    THEN [ok |-> FALSE, m |-> m, p |-> NULL]
    ELSE [ok |-> TRUE, m |-> Allocated(m, FreshAddr(m.heap), val),
          p |-> FreshAddr(m.heap)]

\* delete p (delete nullptr does nothing; Node has no destructor, so the
\* children of p are not followed)
Delete(m, p) ==
    IF p = NULL THEN m
    ELSE [m EXCEPT !.heap = [x \in DOMAIN m.heap \ {p} |-> m.heap[x]]]

\* the stores to the fields of *p
SetFields(m, p, l, r, d) ==
    [m EXCEPT !.heap = [m.heap EXCEPT ![p] =
        [data |-> m.heap[p].data, left |-> l, right |-> r, dist |-> d]]]

\* leaving a function by an exception / by return
Threw(m) == [ok |-> FALSE, m |-> m, p |-> NULL]
Returned(m, p) == [ok |-> TRUE, m |-> m, p |-> p]

\* ------------------------------------------------------ private helpers
getDist(h, node) == IF node # NULL THEN h[node].dist ELSE -1

\* Compare = std::less<T>
cmp(a, b) == a < b

RECURSIVE copyTree(_, _)
RECURSIVE copyTree_left(_, _)
RECURSIVE copyTree_right(_, _, _)
RECURSIVE copyTree_dist(_, _, _, _)

copyTree(m, node) ==
    IF node = NULL THEN Returned(m, NULL)
    ELSE copyTree_left(NewNode(m, m.heap[node].data), node)

\* newNode = new Node(node->data) done: copy the left subtree
copyTree_left(newNode, node) ==
    IF ~newNode.ok THEN Threw(Delete(newNode.m, NULL))
    ELSE copyTree_right(newNode.p,
                        copyTree(newNode.m, newNode.m.heap[node].left), node)

\* newNode->left = copyTree(node->left) done: copy the right subtree
copyTree_right(newNode, left, node) ==
    IF ~left.ok THEN Threw(Delete(left.m, newNode))
    ELSE copyTree_dist(newNode, left.p,
                       copyTree(SetFields(left.m, newNode, left.p, NULL, 0),
                                left.m.heap[node].right),
                       node)

\* newNode->right = copyTree(node->right) done: copy dist and return
copyTree_dist(newNode, left, right, node) ==
    IF ~right.ok THEN Threw(Delete(right.m, newNode))
    ELSE Returned(SetFields(right.m, newNode, left, right.p,
                            right.m.heap[node].dist), newNode)

RECURSIVE mergeNodes(_, _, _)
RECURSIVE mergeNodes_new(_, _, _)
RECURSIVE mergeNodes_right(_, _, _)
RECURSIVE mergeNodes_left(_, _, _)
RECURSIVE mergeNodes_link(_, _, _)

\* A faulty mergeNodes: the operands are never swapped by payload.
mergeNodes_noCmpSwap(m, h1, h2) ==
    IF h1 = NULL THEN copyTree(m, h2)
    ELSE IF h2 = NULL THEN copyTree(m, h1)
    ELSE mergeNodes_new(m, h1, h2)

\* A faulty mergeNodes: the payloads are passed to cmp in the wrong order.
mergeNodes_cmpReversed(m, h1, h2) ==
    IF h1 = NULL THEN copyTree(m, h2)
    ELSE IF h2 = NULL THEN copyTree(m, h1)
    ELSE IF cmp(m.heap[h2].data, m.heap[h1].data)
         THEN mergeNodes_new(m, h2, h1)
         ELSE mergeNodes_new(m, h1, h2)

mergeNodes(m, h1, h2) ==
    IF h1 = NULL THEN copyTree(m, h2)
    ELSE IF h2 = NULL THEN copyTree(m, h1)
    ELSE IF cmp(m.heap[h1].data, m.heap[h2].data)
         THEN mergeNodes_new(m, h2, h1)
         ELSE mergeNodes_new(m, h1, h2)

\* A faulty step: a destructive merge, which re-links h1 itself instead of
\* allocating a node for its payload.
mergeNodes_new_inPlace(m, h1, h2) ==
    mergeNodes_right(Returned(m, h1), h1, h2)

\* h1 has the higher priority: newNode = new Node(h1->data)
mergeNodes_new(m, h1, h2) ==
    mergeNodes_right(NewNode(m, m.heap[h1].data), h1, h2)

\* merge h1->right with h2
mergeNodes_right(newNode, h1, h2) ==
    IF ~newNode.ok THEN Threw(Delete(newNode.m, NULL))
    ELSE mergeNodes_left(newNode.p,
                         mergeNodes(newNode.m, newNode.m.heap[h1].right, h2),
                         h1)

\* copy h1->left
mergeNodes_left(newNode, mergedRight, h1) ==
    IF ~mergedRight.ok THEN Threw(Delete(mergedRight.m, newNode))
    ELSE mergeNodes_link(newNode, mergedRight.p,
                         copyTree(mergedRight.m, mergedRight.m.heap[h1].left))

\* newNode->dist = getDist(newNode->right) + 1; return newNode
mergeNodes_dist(m, newNode, left, right) ==
    Returned(SetFields(m, newNode, left, right, getDist(m.heap, right) + 1),
             newNode)

\* A faulty step: the children are linked without the swap by dist.
mergeNodes_link_noSwap(newNode, mergedRight, copiedLeft) ==
    IF ~copiedLeft.ok THEN Threw(Delete(copiedLeft.m, newNode))
    ELSE mergeNodes_dist(copiedLeft.m, newNode, copiedLeft.p, mergedRight)

\* link the children, the one of smaller dist on the right
mergeNodes_link(newNode, mergedRight, copiedLeft) ==
    IF ~copiedLeft.ok THEN Threw(Delete(copiedLeft.m, newNode))
    ELSE IF getDist(copiedLeft.m.heap, copiedLeft.p)
              < getDist(copiedLeft.m.heap, mergedRight)
         THEN mergeNodes_dist(copiedLeft.m, newNode, mergedRight, copiedLeft.p)
         ELSE mergeNodes_dist(copiedLeft.m, newNode, copiedLeft.p, mergedRight)

RECURSIVE deleteTree(_, _)
deleteTree(m, node) ==
    IF node = NULL THEN m
    ELSE Delete(deleteTree(deleteTree(m, m.heap[node].left),
                           m.heap[node].right), node)

\* ---------------------------------------------------- public operations
\* A queue object is [root, curSize]; an operation returns the free store and
\* the object(s) as the call leaves them, what it threw, and the last call of
\* copyTree (cc) and of mergeNodes (mc) it made itself.  No operation writes
\* root or curSize before its last statements, so `this` is the object as of
\* entry throughout and oldRoot, oldSize are this.root, this.curSize.
NoCall == [called |-> FALSE]
Call(pre, a1, a2, res) ==
    [called |-> TRUE, pre |-> pre.heap, h1 |-> a1, h2 |-> a2,
     post |-> res.m.heap, ok |-> res.ok, res |-> res.p]

Queue(r, n) == [root |-> r, curSize |-> n]

Result(m, this, thrown, cc, mc) ==
    [m |-> m, this |-> this, thrown |-> thrown, cc |-> cc, mc |-> mc]

\* priority_queue()
defaultCtor == Queue(NULL, 0)

size(this) == this.curSize

empty(this) == this.curSize = 0

\* A faulty copy constructor: the new object takes over other's root.
copyCtor_shallow(m, other) ==
    Result(m, Queue(other.root, other.curSize), "none", NoCall, NoCall)

\* root = copyTree(other.root) done; when it threw, no object comes into being
copyCtor_done(pre, other, c) ==
    Result(c.m, Queue(c.p, other.curSize),
           IF c.ok THEN "none" ELSE "bad_alloc",
           Call(pre, other.root, NULL, c), NoCall)

\* priority_queue(const priority_queue &other)
copyCtor(m, other) == copyCtor_done(m, other, copyTree(m, other.root))

\* ~priority_queue()
dtor(m, this) == deleteTree(m, this.root)

\* newRoot = copyTree(other.root) done: replace the current state
assign_install(pre, this, other, newRoot) ==
    IF ~newRoot.ok
    THEN Result(newRoot.m, this, "bad_alloc",
                Call(pre, other.root, NULL, newRoot), NoCall)
    ELSE Result(deleteTree(newRoot.m, this.root),
                Queue(newRoot.p, other.curSize), "none",
                Call(pre, other.root, NULL, newRoot), NoCall)

\* operator=(const priority_queue &other) with this != &other
assign(m, this, other) ==
    assign_install(m, this, other, copyTree(m, other.root))

\* top(): the value returned, or the exception
top(h, this) ==
    IF empty(this)
    THEN [thrown |-> "container_is_empty", val |-> 0]
    ELSE [thrown |-> "none", val |-> h[this.root].data]

\* catch (...) { root = oldRoot; curSize = oldSize; throw runtime_error(); }
push_catch(m, this, mc) ==
    Result(m, Queue(this.root, this.curSize), "runtime_error", NoCall, mc)

\* newRoot = mergeNodes(root, newNode) done: delete the old tree, install
push_install(pre, this, newNode, newRoot) ==
    IF ~newRoot.ok
    THEN push_catch(newRoot.m, this, Call(pre, this.root, newNode, newRoot))
    ELSE Result(deleteTree(newRoot.m, this.root),
                Queue(newRoot.p, this.curSize + 1), "none", NoCall,
                Call(pre, this.root, newNode, newRoot))

\* newNode = new Node(e) done: merge it with the tree
push_merge(this, newNode) ==
    IF ~newNode.ok THEN push_catch(newNode.m, this, NoCall)
    ELSE push_install(newNode.m, this, newNode.p,
                      mergeNodes(newNode.m, this.root, newNode.p))

push(m, this, e) == push_merge(this, NewNode(m, e))

\* A faulty handler: it deletes the tree the queue still owns.
pop_catch_deletesOld(m, this, cc, mc) ==
    Result(deleteTree(m, this.root), Queue(this.root, this.curSize),
           "runtime_error", cc, mc)

\* catch (...) { root = oldRoot; curSize = oldSize; throw runtime_error(); }
pop_catch(m, this, cc, mc) ==
    Result(m, Queue(this.root, this.curSize), "runtime_error", cc, mc)

\* newRoot = mergeNodes(leftChild, rightChild) done: delete the old tree,
\* install
pop_install(pre, this, cc, leftChild, rightChild, newRoot) ==
    IF ~newRoot.ok
    THEN pop_catch(newRoot.m, this, cc,
                   Call(pre, leftChild, rightChild, newRoot))
    ELSE Result(deleteTree(newRoot.m, this.root),
                Queue(newRoot.p, this.curSize - 1), "none", cc,
                Call(pre, leftChild, rightChild, newRoot))

\* rightChild = copyTree(root->right) done: merge the two copies
pop_merge(pre, this, leftChild, rightChild) ==
    IF ~rightChild.ok
    THEN pop_catch(rightChild.m, this,
                   Call(pre, pre.heap[this.root].right, NULL, rightChild),
                   NoCall)
    ELSE pop_install(rightChild.m, this,
                     Call(pre, pre.heap[this.root].right, NULL, rightChild),
                     leftChild, rightChild.p,
                     mergeNodes(rightChild.m, leftChild, rightChild.p))

\* leftChild = copyTree(root->left) done: copy the right subtree
pop_right(pre, this, leftChild) ==
    IF ~leftChild.ok
    THEN pop_catch(leftChild.m, this,
                   Call(pre, pre.heap[this.root].left, NULL, leftChild),
                   NoCall)
    ELSE pop_merge(leftChild.m, this, leftChild.p,
                   copyTree(leftChild.m, leftChild.m.heap[this.root].right))

pop(m, this) ==
    IF empty(this)
    THEN Result(m, this, "container_is_empty", NoCall, NoCall)
    ELSE pop_right(m, this, copyTree(m, m.heap[this.root].left))

Result2(m, this, other, thrown, cc, mc) ==
    [m |-> m, this |-> this, other |-> other, thrown |-> thrown,
     cc |-> cc, mc |-> mc]

\* catch (...) { root = oldRoot1; other.root = oldRoot2; curSize = oldSize1;
\*               other.curSize = oldSize2; throw runtime_error(); }
merge_catch(m, this, other, cc, mc) ==
    Result2(m, Queue(this.root, this.curSize),
            Queue(other.root, other.curSize), "runtime_error", cc, mc)

\* A faulty step: other is not cleared after the merge.
merge_install_keepOther(pre, this, other, cc, copiedRoot1, copiedRoot2, newRoot) ==
    IF ~newRoot.ok
    THEN merge_catch(newRoot.m, this, other, cc,
                     Call(pre, copiedRoot1, copiedRoot2, newRoot))
    ELSE Result2(deleteTree(newRoot.m, this.root),
                 Queue(newRoot.p, this.curSize + other.curSize),
                 other, "none", cc,
                 Call(pre, copiedRoot1, copiedRoot2, newRoot))

\* A faulty step: other's size is not added to curSize.
merge_install_keepSize(pre, this, other, cc, copiedRoot1, copiedRoot2, newRoot) ==
    IF ~newRoot.ok
    THEN merge_catch(newRoot.m, this, other, cc,
                     Call(pre, copiedRoot1, copiedRoot2, newRoot))
    ELSE Result2(deleteTree(deleteTree(newRoot.m, this.root), other.root),
                 Queue(newRoot.p, this.curSize),
                 Queue(NULL, 0), "none", cc,
                 Call(pre, copiedRoot1, copiedRoot2, newRoot))

\* newRoot = mergeNodes(copiedRoot1, copiedRoot2) done: delete the old
\* trees, install, clear other
merge_install(pre, this, other, cc, copiedRoot1, copiedRoot2, newRoot) ==
    IF ~newRoot.ok
    THEN merge_catch(newRoot.m, this, other, cc,
                     Call(pre, copiedRoot1, copiedRoot2, newRoot))
    ELSE Result2(deleteTree(deleteTree(newRoot.m, this.root), other.root),
                 Queue(newRoot.p, this.curSize + other.curSize),
                 Queue(NULL, 0), "none", cc,
                 Call(pre, copiedRoot1, copiedRoot2, newRoot))

\* copiedRoot2 = copyTree(other.root) done: merge the copies
merge_merge(pre, this, other, copiedRoot1, copiedRoot2) ==
    IF ~copiedRoot2.ok
    THEN merge_catch(copiedRoot2.m, this, other,
                     Call(pre, other.root, NULL, copiedRoot2), NoCall)
    ELSE merge_install(copiedRoot2.m, this, other,
                       Call(pre, other.root, NULL, copiedRoot2),
                       copiedRoot1, copiedRoot2.p,
                       mergeNodes(copiedRoot2.m, copiedRoot1, copiedRoot2.p))

\* copiedRoot1 = copyTree(root) done: copy other's tree
merge_copy2(pre, this, other, copiedRoot1) ==
    IF ~copiedRoot1.ok
    THEN merge_catch(copiedRoot1.m, this, other,
                     Call(pre, this.root, NULL, copiedRoot1), NoCall)
    ELSE merge_merge(copiedRoot1.m, this, other, copiedRoot1.p,
                     copyTree(copiedRoot1.m, other.root))

\* merge(priority_queue &other) with this != &other
merge(m, this, other) == merge_copy2(m, this, other, copyTree(m, this.root))

\* ------------------------------------------------- observing the queues
\* the nodes reachable from node
RECURSIVE Nodes(_, _)
Nodes(h, node) ==
    IF node = NULL THEN {}
    ELSE {node} \cup Nodes(h, h[node].left) \cup Nodes(h, h[node].right)

\* how often value v occurs in the tree at node
RECURSIVE Count(_, _, _)
Count(h, node, v) ==
    IF node = NULL THEN 0
    ELSE (IF h[node].data = v THEN 1 ELSE 0)
         + Count(h, h[node].left, v) + Count(h, h[node].right, v)

\* what repeated top() / pop() returns until empty() (no failure injected)
RECURSIVE Drain(_, _)
RECURSIVE Drain_next(_)
Drain(h, this) ==
    IF empty(this) THEN <<>>
    ELSE <<top(h, this).val>>
         \o Drain_next(pop([heap |-> h, fuel |-> NoFail], this))

Drain_next(popped) == Drain(popped.m.heap, popped.this)

\* the allocations a call made when none failed
Allocs(res) == NoFail - res.m.fuel

\* ------------------------------------------------------ the state machine
\* heap: the free store; root, curSize: the fields of each queue object;
\* live: which objects exist (at first one default-constructed queue).  The
\* rest records the run: last is the last public call and what it threw,
\* mcall / ccall the last mergeNodes / copyTree call a public operation made,
\* acct[q] the pushes minus pops plus elements merged in minus elements
\* merged out of q since its construction, copied[q] its net gain by
\* copying, failures the allocation failures injected so far.
EmptyHeap == [x \in {} |-> Node(0)]

Obj(q) == Queue(root[q], curSize[q])

Mem(f) == [heap |-> heap, fuel |-> f]

Failure(t) == t \in {"runtime_error", "bad_alloc"}

\* the fuels to inject into a call that allocates n times: a failure at each
\* of its allocations while failures may still be injected, and none
Fuels(n) == (IF failures < MaxFailures THEN 0..(n - 1) ELSE {}) \cup {NoFail}

\* where a new object is placed: the lowest free slot
FreeSlot(q) == ~live[q] /\ \A p \in 1..(q - 1) : live[p]

Zero == [q \in Queues |-> 0]

Init ==
    /\ heap = EmptyHeap
    /\ root = [q \in Queues |-> NULL]
    /\ curSize = Zero
    /\ live = [q \in Queues |-> q = 1]
    /\ last = [op |-> "ctor", q |-> 0, o |-> 0, thrown |-> "none", val |-> 0]
    /\ mcall = NoCall
    /\ ccall = NoCall
    /\ acct = Zero
    /\ copied = Zero
    /\ failures = 0
    /\ ops = 0
    /\ input = <<>>
    /\ pos = 0
    /\ out = <<>>

\* the record of one public call
Step(name, q, o, thrown, val, cc, mc) ==
    /\ ops' = ops + 1
    /\ last' = [op |-> name, q |-> q, o |-> o, thrown |-> thrown, val |-> val]
    /\ ccall' = cc
    /\ mcall' = mc
    /\ failures' = IF Failure(thrown) THEN failures + 1 ELSE failures
    /\ UNCHANGED <<input, pos, out>>

\* queue q becomes the object r.this
Store(q, r) ==
    /\ heap' = r.m.heap
    /\ root' = [root EXCEPT ![q] = r.this.root]
    /\ curSize' = [curSize EXCEPT ![q] = r.this.curSize]

Construct(q) ==
    /\ ops < MaxOps
    /\ FreeSlot(q)
    /\ live' = [live EXCEPT ![q] = TRUE]
    /\ root' = [root EXCEPT ![q] = defaultCtor.root]
    /\ curSize' = [curSize EXCEPT ![q] = defaultCtor.curSize]
    /\ acct' = [acct EXCEPT ![q] = 0]
    /\ copied' = [copied EXCEPT ![q] = 0]
    /\ Step("ctor", q, 0, "none", 0, NoCall, NoCall)
    /\ UNCHANGED heap

CopyConstructed(q, o, r) ==
    /\ IF r.thrown = "none"
       THEN /\ Store(q, r)
            /\ live' = [live EXCEPT ![q] = TRUE]
            /\ copied' = [copied EXCEPT ![q] = r.this.curSize]
       ELSE /\ heap' = r.m.heap
            /\ UNCHANGED <<live, root, curSize, copied>>
    /\ acct' = [acct EXCEPT ![q] = 0]
    /\ Step("copy_ctor", q, o, r.thrown, 0, r.cc, r.mc)

CopyConstruct(q, o) ==
    /\ ops < MaxOps
    /\ FreeSlot(q) /\ live[o]
    /\ \E f \in Fuels(Allocs(copyCtor(Mem(NoFail), Obj(o)))) :
         CopyConstructed(q, o, copyCtor(Mem(f), Obj(o)))

Destroy(q) ==
    /\ ops < MaxOps
    /\ live[q]
    /\ heap' = dtor(Mem(NoFail), Obj(q)).heap
    /\ live' = [live EXCEPT ![q] = FALSE]
    /\ root' = [root EXCEPT ![q] = NULL]
    /\ curSize' = [curSize EXCEPT ![q] = 0]
    /\ acct' = [acct EXCEPT ![q] = 0]
    /\ copied' = [copied EXCEPT ![q] = 0]
    /\ Step("dtor", q, 0, "none", 0, NoCall, NoCall)

Assigned(q, o, r) ==
    /\ Store(q, r)
    /\ copied' = [copied EXCEPT ![q] = @ + r.this.curSize - curSize[q]]
    /\ Step("assign", q, o, r.thrown, 0, r.cc, r.mc)

Assign(q, o) ==
    /\ ops < MaxOps
    /\ live[q] /\ live[o]
    /\ IF q = o
       THEN /\ UNCHANGED <<heap, root, curSize, copied>>
            /\ Step("assign", q, o, "none", 0, NoCall, NoCall)
       ELSE \E f \in Fuels(Allocs(assign(Mem(NoFail), Obj(q), Obj(o)))) :
              Assigned(q, o, assign(Mem(f), Obj(q), Obj(o)))
    /\ UNCHANGED <<live, acct>>

Topped(q, r) == Step("top", q, 0, r.thrown, r.val, NoCall, NoCall)

Top(q) ==
    /\ ops < MaxOps
    /\ live[q]
    /\ Topped(q, top(heap, Obj(q)))
    /\ UNCHANGED <<heap, root, curSize, live, acct, copied>>

Pushed(q, e, r) ==
    /\ Store(q, r)
    /\ acct' = [acct EXCEPT ![q] = IF r.thrown = "none" THEN @ + 1 ELSE @]
    /\ Step("push", q, 0, r.thrown, e, r.cc, r.mc)

Push(q, e) ==
    /\ ops < MaxOps
    /\ live[q]
    /\ \E f \in Fuels(Allocs(push(Mem(NoFail), Obj(q), e))) :
         Pushed(q, e, push(Mem(f), Obj(q), e))
    /\ UNCHANGED <<live, copied>>

Popped(q, r) ==
    /\ Store(q, r)
    /\ acct' = [acct EXCEPT ![q] = IF r.thrown = "none" THEN @ - 1 ELSE @]
    /\ Step("pop", q, 0, r.thrown, 0, r.cc, r.mc)

Pop(q) ==
    /\ ops < MaxOps
    /\ live[q]
    /\ \E f \in Fuels(Allocs(pop(Mem(NoFail), Obj(q)))) :
         Popped(q, pop(Mem(f), Obj(q)))
    /\ UNCHANGED <<live, copied>>

Merged(q, o, r) ==
    /\ heap' = r.m.heap
    /\ root' = [root EXCEPT ![q] = r.this.root, ![o] = r.other.root]
    /\ curSize' = [curSize EXCEPT ![q] = r.this.curSize,
                                  ![o] = r.other.curSize]
    /\ acct' = IF r.thrown = "none"
               THEN [acct EXCEPT ![q] = @ + curSize[o], ![o] = @ - curSize[o]]
               ELSE acct
    /\ Step("merge", q, o, r.thrown, 0, r.cc, r.mc)

Merge(q, o) ==
    /\ ops < MaxOps
    /\ live[q] /\ live[o]
    /\ IF q = o
       THEN /\ UNCHANGED <<heap, root, curSize, acct>>
            /\ Step("merge", q, o, "none", 0, NoCall, NoCall)
       ELSE \E f \in Fuels(Allocs(merge(Mem(NoFail), Obj(q), Obj(o)))) :
              Merged(q, o, merge(Mem(f), Obj(q), Obj(o)))
    /\ UNCHANGED <<live, copied>>

Next ==
    \/ \E q \in Queues : Construct(q)
    \/ \E q \in Queues, o \in Queues : CopyConstruct(q, o)
    \/ \E q \in Queues : Destroy(q)
    \/ \E q \in Queues, o \in Queues : Assign(q, o)
    \/ \E q \in Queues : Top(q)
    \/ \E q \in Queues, e \in Values : Push(q, e)
    \/ \E q \in Queues : Pop(q)
    \/ \E q \in Queues, o \in Queues : Merge(q, o)

Spec == Init /\ [][Next]_vars

\* -------------------------------------------- pushing, then draining
\* A second scenario over the same operations: a sequence of values is pushed
\* into queue 1, starting empty, and the queue is then drained by top() and
\* pop() until empty(); input is the sequence, pos how many values are
\* pushed, out what top() returned before each pop().
Inputs == UNION {[1..n -> Values] : n \in 0..MaxLen}

InitDrain ==
    /\ heap = EmptyHeap
    /\ root = [q \in Queues |-> NULL]
    /\ curSize = Zero
    /\ live = [q \in Queues |-> q = 1]
    /\ last = [op |-> "ctor", q |-> 0, o |-> 0, thrown |-> "none", val |-> 0]
    /\ mcall = NoCall
    /\ ccall = NoCall
    /\ acct = Zero
    /\ copied = Zero
    /\ failures = 0
    /\ ops = 0
    /\ input \in Inputs
    /\ pos = 0
    /\ out = <<>>

DrainPush ==
    /\ pos < Len(input)
    /\ Store(1, push(Mem(NoFail), Obj(1), input[pos + 1]))
    /\ pos' = pos + 1
    /\ UNCHANGED <<live, last, mcall, ccall, acct, copied, failures, ops,
                   input, out>>

DrainPop ==
    /\ pos = Len(input)
    /\ ~empty(Obj(1))
    /\ out' = Append(out, top(heap, Obj(1)).val)
    /\ Store(1, pop(Mem(NoFail), Obj(1)))
    /\ UNCHANGED <<live, last, mcall, ccall, acct, copied, failures, ops,
                   input, pos>>

NextDrain == DrainPush \/ DrainPop

SpecDrain == InitDrain /\ [][NextDrain]_vars

\* ------------------------------------------------------------ properties
Live == {q \in Queues : live[q]}

\* how often v occurs among the first n entries of sequence s
Occ(s, n, v) == Cardinality({i \in 1..n : s[i] = v})

\* C1: strong exception safety.  Whenever push, pop or merge has thrown
\* because an allocation failed at any point inside it, every queue has the
\* size() it had before the call, its tree is the same nodes with the same
\* contents, and it drains, by repeated top/pop, to the same sequence as
\* before the call.
StrongExceptionSafety ==
    [][(last'.op \in {"push", "pop", "merge"} /\ last'.thrown = "runtime_error")
         => \A q \in Queues :
              /\ live'[q] = live[q]
              /\ curSize'[q] = curSize[q]
              /\ root'[q] = root[q]
              /\ \A n \in Nodes(heap, root[q]) :
                   n \in DOMAIN heap' /\ heap'[n] = heap[n]
              /\ Drain(heap', Queue(root'[q], curSize'[q]))
                   = Drain(heap, Obj(q))]_vars

\* a merge of two non-empty queues has failed inside mergeNodes
FailedMergeReached ==
    /\ last.op = "merge" /\ last.thrown = "runtime_error"
    /\ curSize[last.q] > 0 /\ curSize[last.o] > 0
    /\ mcall.called

\* C2: merge correctness.  A successful a.merge(b) of two distinct queues
\* leaves in a exactly the multiset union of what a and b held, with
\* a.size() the sum of the two sizes, leaves b empty with an absent root, and
\* a.top() is the larger of the two original tops under the comparator.
MergeCorrect ==
    [][(last'.op = "merge" /\ last'.thrown = "none" /\ last'.q # last'.o)
         => LET a == last'.q
                b == last'.o
            IN /\ curSize'[a] = curSize[a] + curSize[b]
               /\ curSize'[b] = 0
               /\ root'[b] = NULL
               /\ \A v \in Values :
                    Count(heap', root'[a], v)
                      = Count(heap, root[a], v) + Count(heap, root[b], v)
               /\ (curSize[a] + curSize[b] > 0) =>
                    LET t == top(heap', Queue(root'[a], curSize'[a])).val
                        tops == {top(heap, Obj(x)).val :
                                   x \in {y \in {a, b} : curSize[y] > 0}}
                    IN t \in tops /\ \A u \in tops : ~cmp(t, u)]_vars

\* two non-empty queues have been merged
MergedReached ==
    /\ last.op = "merge" /\ last.thrown = "none" /\ last.q # last.o
    /\ mcall.called /\ mcall.h1 # NULL /\ mcall.h2 # NULL
    /\ curSize[last.q] >= 2

\* C3: leftist invariant.  In every reachable state every node of every
\* queue's tree has rank(left) >= rank(right), the rank being the stored
\* dist and -1 for an absent child.
Leftist ==
    \A q \in Live : \A n \in Nodes(heap, root[q]) :
        getDist(heap, heap[n].left) >= getDist(heap, heap[n].right)

\* a tree in which mergeNodes had to swap the children
SwappedReached ==
    \E q \in Live : \E n \in Nodes(heap, root[q]) :
        heap[n].left # NULL /\ heap[n].right = NULL

\* C4: max-heap invariant.  In every reachable state no child is strictly
\* greater than its parent under the comparator, and top() of a non-empty
\* queue returns an element that is not less than any element of the queue.
MaxHeap ==
    \A q \in Live :
        /\ \A n \in Nodes(heap, root[q]) :
             \A c \in {heap[n].left, heap[n].right} \ {NULL} :
                ~cmp(heap[n].data, heap[c].data)
        /\ ~empty(Obj(q)) =>
             \A n \in Nodes(heap, root[q]) :
                ~cmp(top(heap, Obj(q)).val, heap[n].data)

\* a queue holding two different values
TwoValuesReached ==
    \E q \in Live : \E n \in Nodes(heap, root[q]) :
        heap[n].data # heap[root[q]].data

\* C5 as stated: size() equals the number of nodes reachable from the root,
\* and equals successful pushes minus successful pops plus elements merged in
\* minus elements transferred out by merge.
SizeIsPushesMinusPops ==
    \A q \in Live :
        /\ curSize[q] = Cardinality(Nodes(heap, root[q]))
        /\ curSize[q] = acct[q]

\* C5 as amended: size() equals the number of nodes reachable from the root,
\* and equals successful pushes minus successful pops plus elements merged in
\* minus elements transferred out by merge, plus the elements the queue
\* received by copy-construction and copy-assignment minus the elements a
\* copy-assignment discarded.
SizeConsistent ==
    \A q \in Live :
        /\ curSize[q] = Cardinality(Nodes(heap, root[q]))
        /\ curSize[q] = acct[q] + copied[q]

\* a copy that has since been pushed to or popped from
CopyThenMutatedReached ==
    \E q \in Live : copied[q] > 0 /\ acct[q] # 0

\* C6: drain order.  Values pushed into an initially empty queue come out of
\* repeated top() / pop() each exactly once and in non-increasing order under
\* the comparator: each pop removes one element, the one top() returned.
DrainOrder ==
    /\ curSize[1] = pos - Len(out)
    /\ \A v \in Values :
         Count(heap, root[1], v) + Occ(out, Len(out), v) = Occ(input, pos, v)
    /\ \A i \in 1..Len(out) : \A j \in 1..Len(out) :
         i < j => ~cmp(out[i], out[j])
    /\ (pos = Len(input) /\ empty(Obj(1))) => Len(out) = Len(input)

\* a queue of three or more values, not all equal, drained to empty
DrainedReached ==
    /\ pos = Len(input) /\ empty(Obj(1))
    /\ Len(out) >= 3 /\ out[1] # out[Len(out)]

\* C7: non-destructive merge.  A call mergeNodes(h1, h2), whether it returns
\* or throws, leaves every node of h1 and h2 allocated and unchanged, and the
\* tree it returns is made of freshly allocated nodes only.
NonDestructiveMerge ==
    mcall.called =>
        /\ \A n \in Nodes(mcall.pre, mcall.h1) \cup Nodes(mcall.pre, mcall.h2) :
             n \in DOMAIN mcall.post /\ mcall.post[n] = mcall.pre[n]
        /\ mcall.ok =>
             Nodes(mcall.post, mcall.res) \cap DOMAIN mcall.pre = {}

\* mergeNodes has thrown on two present operands
MergeNodesThrewReached ==
    mcall.called /\ ~mcall.ok /\ mcall.h1 # NULL /\ mcall.h2 # NULL

\* no node is reachable from the roots of two distinct queues
NoAlias ==
    \A p \in Live : \A q \in Live :
        p # q => Nodes(heap, root[p]) \cap Nodes(heap, root[q]) = {}

\* C8: copy independence.  No node is reachable from the roots of two
\* distinct queues, and a push or pop on one queue (a copy of another, in
\* particular) leaves the size(), top() and content of every other queue
\* unchanged.
CopyIndependence ==
    /\ []NoAlias
    /\ [][last'.op \in {"push", "pop"}
            => \A p \in Live \ {last'.q} :
                 /\ curSize'[p] = curSize[p]
                 /\ top(heap', Queue(root'[p], curSize'[p])) = top(heap, Obj(p))
                 /\ Drain(heap', Queue(root'[p], curSize'[p]))
                      = Drain(heap, Obj(p))]_vars

\* a non-empty copy has been pushed to while its source is non-empty
CopyPushedReached ==
    /\ last.op = "push" /\ last.thrown = "none"
    /\ copied[last.q] > 0
    /\ \E p \in Live \ {last.q} : curSize[p] > 0

\* C9: copyTree failure cleanup.  When an allocation fails inside a call of
\* copyTree, every node the call allocated has been freed when the exception
\* leaves it: the allocated addresses are those of before the call.
CopyTreeCleansUp ==
    (ccall.called /\ ~ccall.ok) => DOMAIN ccall.post = DOMAIN ccall.pre

\* C10: no leaked nodes on success.  While no failure has been injected,
\* every allocated node is reachable from the root of some live queue.
NoLeakOnSuccess ==
    failures = 0 =>
        DOMAIN heap = UNION {Nodes(heap, root[q]) : q \in Live}

====
